---------------------------- MODULE Spec2Model ----------------------------
(***************************************************************************)
(* Model of lib/redirect_server.py: the StopBrowsing redirect server.      *)
(*                                                                         *)
(* main() checks the argument count, parses the port, changes the working  *)
(* directory, binds a TCPServer and serves until interrupted.  The handler *)
(* StopBrowsingHandler derives from SimpleHTTPRequestHandler, overrides    *)
(* do_GET to force the path '/index.html' and overrides log_message to do  *)
(* nothing.  Everything else (do_HEAD, send_head, translate_path, the      *)
(* 501 answer for unknown methods, the server's handle_error) is the       *)
(* behaviour inherited from http.server / socketserver and is modelled     *)
(* here as those base classes compute it.                                  *)
(***************************************************************************)
EXTENDS Integers, Sequences, FiniteSets, TLC

VARIABLES
    pc,          \* position of main(): the source line about to execute
    argv,        \* sys.argv: a sequence of strings (each a sequence of chars)
    portFree,    \* environment: can the port be bound by this process
    port,        \* main's local `port` (NoPort until line 33 has run)
    cwd,         \* the process's working directory
    sock,        \* the listening socket: "none", "listening", "closed"
    stdout,      \* lines written to standard output
    stderr,      \* blocks written to standard error
    exitStatus,  \* Running, or the process's exit status
    fs,          \* content of the redirect directory
    request,     \* the request being handled (or the last one handled)
    response,    \* the response the handler produced last (NoResponse before any)
    nHandled,    \* number of requests the serve loop has processed
    sigints      \* the positions of main() at which SIGINT was delivered

vars == <<pc, argv, portFree, port, cwd, sock, stdout, stderr, exitStatus,
          fs, request, response, nHandled, sigints>>

---------------------------------------------------------------------------
(* Bounds of the model *)

\* file modification times and If-Modified-Since times range over 0..MaxTime
MaxTime == 1
\* the serve loop is followed for at most MaxRequests requests
MaxRequests == 2
\* the command line carries at most MaxArgs arguments after the program name
MaxArgs == 3

---------------------------------------------------------------------------
(* Strings of the command line, as sequences of characters *)

ProgName   == <<"r", "s">>
RedirDir   == <<"w", "w", "w">>
MissingDir == <<"n", "o">>
ExtraArg   == <<"x">>

PortArgs == { <<"8", "0">>, <<" ">>, <<"a", "b", "c">>, <<>>,
              <<"8", ".", "0">>, <<"-", "1">>, <<"7", "0", "0", "0", "0">> }
DirArgs  == { RedirDir, MissingDir }

\* directories that exist on the machine (environment)
ExistingDirs == { RedirDir }

Digits == { "0", "1", "7", "8" }

DigitVal(c) == CASE c = "0" -> 0 [] c = "1" -> 1 [] c = "7" -> 7 [] c = "8" -> 8

RECURSIVE lstrip(_)
lstrip(s) == IF s # <<>> /\ Head(s) = " " THEN lstrip(Tail(s)) ELSE s

RECURSIVE rstrip(_)
rstrip(s) == IF s # <<>> /\ s[Len(s)] = " " THEN rstrip(SubSeq(s, 1, Len(s) - 1)) ELSE s

strip(s) == rstrip(lstrip(s))

RECURSIVE DecimalValue(_)
DecimalValue(ds) ==
    IF ds = <<>> THEN 0
    ELSE 10 * DecimalValue(SubSeq(ds, 1, Len(ds) - 1)) + DigitVal(ds[Len(ds)])

\* the digits of a literal once blanks and an optional sign are removed
Unsigned(s) ==
    LET t == strip(s)
    IN  IF t # <<>> /\ Head(t) \in {"+", "-"} THEN Tail(t) ELSE t

\* int(s) returns a value (otherwise it raises ValueError)
IntParses(s) ==
    /\ Unsigned(s) # <<>>
    /\ \A i \in 1..Len(Unsigned(s)) : Unsigned(s)[i] \in Digits

\* int(s), for a literal that parses
IntValue(s) ==
    LET t == strip(s)
    IN  IF Head(t) = "-" THEN 0 - DecimalValue(Unsigned(s)) ELSE DecimalValue(Unsigned(s))

NoPort == -1000000
MaxPort == 65535


Running == -1

---------------------------------------------------------------------------
(* The redirect directory *)

Names == { "index.html", "other.txt", "sub" }

Contents == { "", "C1" }

Absent     == [kind |-> "absent", readable |-> FALSE, content |-> "", mtime |-> 0]
DirEntry   == [kind |-> "dir", readable |-> TRUE, content |-> "", mtime |-> 0]
File(c, m) == [kind |-> "file", readable |-> TRUE, content |-> c, mtime |-> m]
Unreadable == [kind |-> "file", readable |-> FALSE, content |-> "C1", mtime |-> 0]

\* what the entry named index.html can be
IndexEntries ==
    { Absent, DirEntry, Unreadable } \cup { File(c, m) : c \in Contents, m \in 0..MaxTime }

\* the rest of the directory: another page and an empty subdirectory
Directory(e) ==
    [n \in Names |-> CASE n = "index.html" -> e
                       [] n = "other.txt"  -> File("OTHER", 0)
                       [] n = "sub"        -> DirEntry]

\* the entry a list of path components names, from the working directory
Lookup(d, segs) ==
    IF segs = <<>> THEN DirEntry
    ELSE IF Len(segs) = 1 /\ segs[1] \in Names THEN d[segs[1]]
    ELSE Absent

isdir(d, segs)  == Lookup(d, segs).kind = "dir"
isfile(d, segs) == Lookup(d, segs).kind = "file"

---------------------------------------------------------------------------
(* Requests *)

\* a request path: its components, whether it ends in '/', whether a query follows
Path(segs, slash, query) == [segs |-> segs, slash |-> slash, query |-> query]

IndexPath == Path(<<"index.html">>, FALSE, FALSE)

RequestPaths ==
    { Path(<<>>, TRUE, FALSE),                        \* /
      IndexPath,                                      \* /index.html
      Path(<<"foo">>, FALSE, FALSE),                  \* /foo
      Path(<<"foo", "bar">>, FALSE, TRUE),            \* /foo/bar?x=1
      Path(<<"other.txt">>, FALSE, FALSE),            \* /other.txt
      Path(<<"sub">>, FALSE, FALSE),                  \* /sub
      Path(<<"sub">>, TRUE, TRUE),                    \* /sub/?x=1
      Path(<<"sub", "..", "other.txt">>, FALSE, FALSE) }  \* /sub/../other.txt

Methods == { "GET", "HEAD", "POST" }

\* the If-Modified-Since header: absent, ill-formed (or not UTC), or a time
NoIMS  == [present |-> FALSE, valid |-> FALSE, time |-> 0]
BadIMS == [present |-> TRUE, valid |-> FALSE, time |-> 0]
IMS(t) == [present |-> TRUE, valid |-> TRUE, time |-> t]

IMSValues == { NoIMS, BadIMS } \cup { IMS(t) : t \in 0..MaxTime }

\* disconnect: the client resets the connection before reading the response
Requests ==
    [ command : Methods, path : RequestPaths, ims : IMSValues,
      inm : BOOLEAN, disconnect : BOOLEAN ]

NoRequest == [ command |-> "none", path |-> IndexPath, ims |-> NoIMS,
               inm |-> FALSE, disconnect |-> FALSE ]

---------------------------------------------------------------------------
(* SimpleHTTPRequestHandler, as StopBrowsingHandler inherits it *)

\* posixpath.normpath on the components of an absolute path
RECURSIVE normpath(_, _)
normpath(done, rest) ==
    IF rest = <<>> THEN done
    ELSE IF Head(rest) = "." THEN normpath(done, Tail(rest))
    ELSE IF Head(rest) = ".."
         THEN normpath(IF done = <<>> THEN done ELSE SubSeq(done, 1, Len(done) - 1),
                       Tail(rest))
    ELSE normpath(Append(done, Head(rest)), Tail(rest))

\* translate_path: the query is dropped, the path normalised, the components
\* joined to the working directory; a trailing slash is kept
translate_path(path) ==
    [segs |-> SelectSeq(normpath(<<>>, path.segs), LAMBDA w : w \notin {".", ".."}),
     slash |-> path.slash]

\* the headers ask for a 304 for a file last modified at mtime
NotModified(req, mtime) ==
    /\ req.ims.present
    /\ ~req.inm
    /\ req.ims.valid
    /\ mtime <= req.ims.time

Head_(status, file, opened, listed) ==
    [status |-> status, file |-> file, opened |-> opened, listed |-> listed]

\* send_head for a path that is not a directory: open it and answer 404, 304 or 200
send_file(d, req, segs, slash) ==
    IF slash THEN Head_(404, <<>>, {}, {})
    ELSE IF ~(isfile(d, segs) /\ Lookup(d, segs).readable) THEN Head_(404, <<>>, {}, {})
    ELSE IF NotModified(req, Lookup(d, segs).mtime) THEN Head_(304, <<>>, {segs}, {})
    ELSE Head_(200, segs, {segs}, {})

\* send_head: status, the file handed back to the caller (<<>> for None), the
\* files opened and the directories listed
send_head(d, req) ==
    LET p == translate_path(req.path)
    IN  IF isdir(d, p.segs)
        THEN IF ~req.path.slash THEN Head_(301, <<>>, {}, {})
             ELSE IF isfile(d, Append(p.segs, "index.html"))
                  THEN send_file(d, req, Append(p.segs, "index.html"), FALSE)
             ELSE IF isfile(d, Append(p.segs, "index.htm"))
                  THEN send_file(d, req, Append(p.segs, "index.htm"), FALSE)
             ELSE Head_(200, <<>>, {}, {p.segs})
        ELSE send_file(d, req, p.segs, p.slash)

ErrorBody(status) == IF status = 404 THEN "<404>" ELSE "<501>"
ListingBody == "<listing>"

Response(status, body, opened, listed, raised) ==
    [status |-> status, body |-> body, opened |-> opened, listed |-> listed,
     raised |-> raised]

NoResponse == Response(0, "", {}, {}, FALSE)

\* SimpleHTTPRequestHandler.do_GET: send_head, then copy the file (or the
\* listing) to the client; send_error writes its own page
base_do_GET(d, req) ==
    LET h == send_head(d, req)
    IN  Response(h.status,
                 IF h.status = 404 THEN ErrorBody(404)
                 ELSE IF h.listed # {} THEN ListingBody
                 ELSE IF h.file # <<>> THEN Lookup(d, h.file).content
                 ELSE "",
                 h.opened, h.listed, FALSE)

\* SimpleHTTPRequestHandler.do_HEAD: send_head, then close the file
do_HEAD(d, req) ==
    LET h == send_head(d, req)
    IN  Response(h.status, "", h.opened, h.listed, FALSE)

---------------------------------------------------------------------------
(* StopBrowsingHandler *)

\* do_GET without the override: the request path is served as it came
do_GET_KeepPath(d, req) == base_do_GET(d, req)

\* do_GET overriding with the directory itself instead of the page
do_GET_Root(d, req) == base_do_GET(d, [req EXCEPT !.path = Path(<<>>, TRUE, FALSE)])

\* do_GET overriding with a misspelt page name
do_GET_Htm(d, req) == base_do_GET(d, [req EXCEPT !.path = Path(<<"index.htm">>, FALSE, FALSE)])

\* do_GET: self.path = '/index.html'; return super().do_GET()
do_GET(d, req) == base_do_GET(d, [req EXCEPT !.path = IndexPath])

\* handle_one_request: dispatch on 'do_' + command, 501 when there is none
dispatch(d, req) ==
    IF req.command = "GET" THEN do_GET(d, req)
    ELSE IF req.command = "HEAD" THEN do_HEAD(d, req)
    ELSE Response(501, ErrorBody(501), {}, {}, FALSE)

\* the handler run on a connection: writing to a client that has reset the
\* connection raises ConnectionError out of the handler, nothing is delivered
handle(d, req) ==
    LET r == dispatch(d, req)
    IN  IF req.disconnect THEN Response(r.status, "", r.opened, r.listed, TRUE)
        ELSE r

\* StopBrowsingHandler.log_message: nothing is written
log_message(err, status) == err

\* BaseServer.handle_error: a traceback block on standard error when the
\* handler raised
handle_error(err, raised) ==
    IF raised THEN Append(err, "Exception occurred during processing of request") ELSE err

---------------------------------------------------------------------------
(* main *)

UsageMsg   == "Usage: redirect_server.py <port> <redirect_dir>"
StartupMsg == "StopBrowsing redirect server running on port {port}"
StoppedMsg == "Server stopped"

\* command lines: the program name, then up to MaxArgs arguments
CommandLines ==
    { a \in UNION { [1..n -> PortArgs \cup DirArgs \cup {ProgName, ExtraArg}] : n \in 1..(MaxArgs + 1) } :
        /\ a[1] = ProgName
        /\ Len(a) >= 2 => a[2] \in PortArgs
        /\ Len(a) >= 3 => a[3] \in DirArgs
        /\ \A i \in 4..Len(a) : a[i] = ExtraArg }

Init ==
    /\ pc = "l29"
    /\ argv \in CommandLines
    /\ portFree \in BOOLEAN
    /\ port = NoPort
    /\ cwd = <<>>
    /\ sock = "none"
    /\ stdout = <<>>
    /\ stderr = <<>>
    /\ exitStatus = Running
    /\ fs \in { Directory(e) : e \in IndexEntries }
    /\ request = NoRequest
    /\ response = NoResponse
    /\ nHandled = 0
    /\ sigints = <<>>

\* an exception nobody catches: the traceback goes to standard error and the
\* interpreter exits with a non-zero status; the with block closes the socket
Uncaught(name, status) ==
    /\ stderr' = Append(stderr, name)
    /\ exitStatus' = status
    /\ pc' = "exited"
    /\ sock' = IF sock = "listening" THEN "closed" ELSE sock

\* the guard of line 29
ArgCountWrong_AtMost == Len(argv) < 3

ArgCountWrong == Len(argv) # 3

\* lines 29-31: if len(sys.argv) != 3: print usage; sys.exit(1)
CheckArgs ==
    /\ pc = "l29"
    /\ IF ArgCountWrong
       THEN /\ stdout' = Append(stdout, UsageMsg)
            /\ exitStatus' = 1
            /\ pc' = "exited"
       ELSE /\ pc' = "l33"
            /\ UNCHANGED <<stdout, exitStatus>>
    /\ UNCHANGED <<argv, portFree, port, cwd, sock, stderr, fs, request, response,
                   nHandled, sigints>>

\* a port parser that takes anything for a number
PortParses_Lenient(s) == TRUE

PortParses(s) == IntParses(s)

PortValue(s) == IF IntParses(s) THEN IntValue(s) ELSE 0

\* line 33: port = int(sys.argv[1]); a ValueError is not caught
ParsePort ==
    /\ pc = "l33"
    /\ IF PortParses(argv[2])
       THEN /\ port' = PortValue(argv[2])
            /\ pc' = "l37"
            /\ UNCHANGED <<stderr, exitStatus, sock>>
       ELSE /\ Uncaught("ValueError", 1)
            /\ UNCHANGED port
    /\ UNCHANGED <<argv, portFree, cwd, stdout, fs, request, response, nHandled, sigints>>

\* lines 34-37 with the failure of chdir ignored
Chdir_IgnoreFailure ==
    /\ pc = "l37"
    /\ pc' = "l40"
    /\ cwd' = IF argv[3] \in ExistingDirs THEN argv[3] ELSE cwd
    /\ UNCHANGED <<argv, portFree, port, sock, stdout, stderr, exitStatus, fs, request,
                   response, nHandled, sigints>>

\* lines 34-37: os.chdir(redirect_dir); a FileNotFoundError is not caught
Chdir ==
    /\ pc = "l37"
    /\ IF argv[3] \in ExistingDirs
       THEN /\ cwd' = argv[3]
            /\ pc' = "l40"
            /\ UNCHANGED <<stderr, exitStatus, sock>>
       ELSE /\ Uncaught("FileNotFoundError", 1)
            /\ UNCHANGED cwd
    /\ UNCHANGED <<argv, portFree, port, stdout, fs, request, response, nHandled, sigints>>

\* the bind succeeds: the port is a TCP port and the process may take it
CanBind == port \in 0..MaxPort /\ portFree

\* line 40 with a failed bind carrying on to the startup line
Bind_CarryOn ==
    /\ pc = "l40"
    /\ pc' = "l41"
    /\ sock' = IF CanBind THEN "listening" ELSE sock
    /\ UNCHANGED <<argv, portFree, port, cwd, stdout, stderr, exitStatus, fs, request,
                   response, nHandled, sigints>>

\* line 40: socketserver.TCPServer(("", port), ...) binds and listens; an
\* OSError (or OverflowError for a port out of range) is not caught
Bind ==
    /\ pc = "l40"
    /\ IF CanBind
       THEN /\ sock' = "listening"
            /\ pc' = "l41"
            /\ UNCHANGED <<stderr, exitStatus>>
       ELSE Uncaught(IF port \in 0..MaxPort THEN "OSError" ELSE "OverflowError", 1)
    /\ UNCHANGED <<argv, portFree, port, cwd, stdout, fs, request, response, nHandled,
                   sigints>>

\* line 41: the startup line; line 43 enters serve_forever
PrintStartup ==
    /\ pc = "l41"
    /\ stdout' = Append(stdout, StartupMsg)
    /\ pc' = "serving"
    /\ UNCHANGED <<argv, portFree, port, cwd, sock, stderr, exitStatus, fs, request,
                   response, nHandled, sigints>>

\* serve_forever accepts a connection and reads a request from it
Accept ==
    /\ pc = "serving"
    /\ nHandled < MaxRequests
    /\ request' \in Requests
    /\ pc' = "handling"
    /\ UNCHANGED <<argv, portFree, port, cwd, sock, stdout, stderr, exitStatus, fs,
                   response, nHandled, sigints>>

\* the handler runs to its end; an exception it raises is reported by
\* handle_error and the loop goes on
Respond ==
    /\ pc = "handling"
    /\ response' = handle(fs, request)
    /\ stderr' = handle_error(log_message(stderr, response'.status), response'.raised)
    /\ nHandled' = nHandled + 1
    /\ pc' = "serving"
    /\ UNCHANGED <<argv, portFree, port, cwd, sock, stdout, exitStatus, fs, request,
                   sigints>>

\* SIGINT raises KeyboardInterrupt where main is; only lines 42-44 catch it
Interrupt ==
    /\ pc # "exited"
    /\ sigints' = Append(sigints, pc)
    /\ IF pc \in {"serving", "handling"}
       THEN /\ pc' = "l45"
            /\ UNCHANGED <<stderr, exitStatus, sock>>
       ELSE Uncaught("KeyboardInterrupt", 130)
    /\ UNCHANGED <<argv, portFree, port, cwd, stdout, fs, request, response, nHandled>>

\* line 45: print("Server stopped"); the with block closes the socket and
\* main returns
PrintStopped ==
    /\ pc = "l45"
    /\ stdout' = Append(stdout, StoppedMsg)
    /\ sock' = "closed"
    /\ exitStatus' = 0
    /\ pc' = "exited"
    /\ UNCHANGED <<argv, portFree, port, cwd, stderr, fs, request, response, nHandled,
                   sigints>>

\* environment: index.html is created, replaced, removed while the server runs
FsChange ==
    /\ pc \in {"serving", "handling"}
    /\ \E e \in IndexEntries \ {fs["index.html"]} : fs' = Directory(e)
    /\ UNCHANGED <<pc, argv, portFree, port, cwd, sock, stdout, stderr, exitStatus,
                   request, response, nHandled, sigints>>

Next ==
    \/ CheckArgs
    \/ ParsePort
    \/ Chdir
    \/ Bind
    \/ PrintStartup
    \/ Accept
    \/ Respond
    \/ Interrupt
    \/ PrintStopped
    \/ FsChange

Spec == Init /\ [][Next]_vars

---------------------------------------------------------------------------
(* Properties *)

\* the step in which the handler answers `request` from the directory `fs`
Responds == pc = "handling" /\ nHandled' = nHandled + 1

\* index.html is a regular file the server can read
IndexReadable == fs["index.html"].kind = "file" /\ fs["index.html"].readable

\* the process ended without a signal having been delivered
ExitedUnsignalled == pc = "exited" /\ sigints = <<>>

Count(seq, x) == Cardinality({ i \in 1..Len(seq) : seq[i] = x })

\* C1: for the directory as it is, a GET request to any path gets the
\* response (status and body) that the same request to /index.html gets.
C1_AnyPathAsIndex ==
    [][ (Responds /\ request.command = "GET")
          => response' = handle(fs, [request EXCEPT !.path = IndexPath]) ]_vars

\* C1 witness: a GET for another existing file was answered with the page
C1_Witness ==
    /\ pc = "serving"
    /\ request.command = "GET"
    /\ request.path = Path(<<"other.txt">>, FALSE, FALSE)
    /\ response.status = 200
    /\ response.body = "C1"

\* C2 as claimed: with a readable, non-empty index.html, every GET request,
\* whatever its path and headers, is answered 200 with the content of the file
\* (the client stays connected to read the answer).
C2_Original ==
    [][ (Responds /\ request.command = "GET" /\ ~request.disconnect
            /\ IndexReadable /\ fs["index.html"].content # "")
          => /\ response'.status = 200
             /\ response'.body = fs["index.html"].content ]_vars

\* C2 amended: with a readable, non-empty index.html, a GET request of a
\* client that stays connected is answered 200 with the content of the file,
\* unless it carries a well-formed If-Modified-Since not earlier than the
\* file's modification time and no If-None-Match: then it is answered 304
\* with an empty body.
C2_Amended ==
    [][ (Responds /\ request.command = "GET" /\ ~request.disconnect
            /\ IndexReadable /\ fs["index.html"].content # "")
          => IF /\ request.ims.present /\ request.ims.valid /\ ~request.inm
                /\ fs["index.html"].mtime <= request.ims.time
             THEN response'.status = 304 /\ response'.body = ""
             ELSE /\ response'.status = 200
                  /\ response'.body = fs["index.html"].content ]_vars

\* C2 witness: a conditional GET for a file modified later got the content
C2_Witness ==
    /\ pc = "serving"
    /\ request.command = "GET"
    /\ request.path = Path(<<"foo", "bar">>, FALSE, TRUE)
    /\ request.ims = IMS(0)
    /\ ~request.disconnect
    /\ fs["index.html"] = File("C1", 1)
    /\ response.status = 200
    /\ response.body = "C1"

\* C3: with no index.html a GET request is answered 404 and the server goes
\* on serving; a GET that follows a 404, once the file is there and
\* readable, is answered 200 with its content (no conditional header, the
\* client stays connected).
C3_MissingIndex404 ==
    [][ (Responds /\ request.command = "GET")
          => /\ fs["index.html"].kind = "absent"
                  => /\ response'.status = 404
                     /\ pc' = "serving"
                     /\ sock' = "listening"
                     /\ exitStatus' = Running
             /\ (response.status = 404 /\ IndexReadable /\ ~request.ims.present
                     /\ ~request.disconnect)
                  => /\ response'.status = 200
                     /\ response'.body = fs["index.html"].content ]_vars

\* C3 witness: the second request was answered 404 too and the server serves
C3_Witness ==
    /\ pc = "serving"
    /\ sock = "listening"
    /\ nHandled >= 2
    /\ request.command = "GET"
    /\ fs["index.html"].kind = "absent"
    /\ response.status = 404

\* C4: with an argument count other than two, the working directory is never
\* changed, no socket is bound, no startup line is printed, and the run ends
\* with the usage message on standard output and status 1.
C4_WrongArgCount ==
    Len(argv) # 3
      => /\ cwd = <<>>
         /\ sock = "none"
         /\ Count(stdout, StartupMsg) = 0
         /\ ExitedUnsignalled => stdout = <<UsageMsg>> /\ exitStatus = 1

\* C4 witness: three arguments, usage printed, status 1
C4_Witness ==
    /\ pc = "exited"
    /\ Len(argv) = 4
    /\ stdout = <<UsageMsg>>
    /\ exitStatus = 1

\* C5 as claimed: a port argument that is no integer ends the run with the
\* usage message and a non-zero status, before chdir and bind.
C5_Original ==
    (Len(argv) = 3 /\ ~IntParses(argv[2]))
      => /\ cwd = <<>>
         /\ sock = "none"
         /\ ExitedUnsignalled => Count(stdout, UsageMsg) = 1 /\ exitStatus # 0

\* C5 amended: a port argument that is no integer ends the run with an
\* uncaught ValueError (its traceback on standard error, nothing on standard
\* output, no usage message) and status 1, before chdir and bind.
C5_Amended ==
    (Len(argv) = 3 /\ ~IntParses(argv[2]))
      => /\ cwd = <<>>
         /\ sock = "none"
         /\ ExitedUnsignalled
              => stdout = <<>> /\ stderr = <<"ValueError">> /\ exitStatus = 1

\* C5 witness: the port abc ended the run with the ValueError
C5_Witness ==
    /\ pc = "exited"
    /\ Len(argv) = 3
    /\ argv[2] = <<"a", "b", "c">>
    /\ stderr = <<"ValueError">>
    /\ exitStatus = 1

\* C6: with a port that parses and a directory that does not exist no socket
\* is ever bound and no startup line printed, and the run ends with a
\* non-zero status; in every run the socket is bound only after the working
\* directory has been changed.
C6_MissingDirectory ==
    /\ sock # "none" => cwd # <<>>
    /\ (Len(argv) = 3 /\ IntParses(argv[2]) /\ argv[3] \notin ExistingDirs)
         => /\ sock = "none"
            /\ cwd = <<>>
            /\ Count(stdout, StartupMsg) = 0
            /\ pc = "exited" => exitStatus \notin {Running, 0}

\* C6 witness: the missing directory ended the run at chdir
C6_Witness ==
    /\ pc = "exited"
    /\ Len(argv) = 3
    /\ argv[3] = MissingDir
    /\ stderr = <<"FileNotFoundError">>
    /\ exitStatus = 1
    /\ sock = "none"

\* C7: once the server serves, and until it is shut down, the startup line
\* is the only output: standard output holds that one line and standard
\* error nothing, whatever requests were handled.
C7_NoPerRequestOutput ==
    pc \in {"serving", "handling"} => stdout = <<StartupMsg>> /\ stderr = <<>>

\* C8: a single interrupt delivered once the socket listens ends the run
\* with exactly one "Server stopped" line.
C8_OneStoppedMessage ==
    (pc = "exited" /\ Len(sigints) = 1 /\ sigints[1] \in {"l41", "serving", "handling"})
      => Count(stdout, StoppedMsg) = 1

\* C9: whatever the method and the path of a request, the handler opens no
\* file but index.html of the redirect directory and lists no directory.
C9_OnlyIndexOpened ==
    response.opened \subseteq { <<"index.html">> } /\ response.listed = {}

Rank(p) ==
    CASE p = "l29" -> 0 [] p = "l33" -> 0 [] p = "l37" -> 0 [] p = "l40" -> 0
      [] p = "l41" -> 1
      [] p = "serving" -> 2 [] p = "handling" -> 2
      [] p = "l45" -> 3 [] p = "exited" -> 3

\* C10: main only moves forward through starting, listening, serving and
\* stopped; the startup line is printed with the socket bound and no request
\* handled yet; a failed bind ends the run with a non-zero status, no
\* startup line, no request handled and no shutdown line.
C10_Lifecycle ==
    /\ [][ /\ Rank(pc') >= Rank(pc)
           /\ Count(stdout', StartupMsg) > Count(stdout, StartupMsg)
                => sock = "listening" /\ nHandled = 0 /\ request = NoRequest ]_vars
    /\ [](/\ Count(stdout, StartupMsg) <= 1
          /\ (pc = "handling" \/ nHandled > 0) => Count(stdout, StartupMsg) = 1
          /\ (port # NoPort /\ cwd # <<>> /\ ~CanBind)
               => /\ sock = "none"
                  /\ stdout = <<>>
                  /\ nHandled = 0
                  /\ request = NoRequest
                  /\ pc = "exited" => exitStatus \notin {Running, 0})

\* C10 witness: the port was taken, the run ended at the bind
C10_Witness ==
    /\ pc = "exited"
    /\ ~portFree
    /\ port = 80
    /\ stderr = <<"OSError">>
    /\ stdout = <<>>
    /\ exitStatus = 1

=============================================================================
